---- MODULE Spec2Model ----
(***************************************************************************)
(* Model of the cluster-convergence helpers of                             *)
(* vendor/github.com/openshift/cluster-api-actuator-pkg/pkg/e2e/infra/     *)
(* utils.go: isOneMachinePerNode, nodesAreReady, scaleMachineSet and       *)
(* waitForClusterSizeToBeHealthy, run against a cluster that an external   *)
(* reconciler mutates and whose reads may fail.                            *)
(*                                                                         *)
(* Strings that hold a namespaced key ("namespace/name") are represented   *)
(* by the tuple of their "/"-separated parts, so "a/b" is <<"a", "b">> and *)
(* the empty string is <<"">>.                                             *)
(***************************************************************************)
EXTENDS Integers, Sequences, FiniteSets, TLC

VARIABLES
    nodes,          \* cluster: node name -> node object
    machines,       \* cluster: machine name -> machine object (MachineApiNamespace)
    pc,             \* isOneMachinePerNode: "idle", "polling" or "done"
    tick,           \* isOneMachinePerNode: intervals elapsed in the current poll
    machineList,    \* isOneMachinePerNode: local machineList.Items
    nodeList,       \* isOneMachinePerNode: local nodeList.Items
    checkResult,    \* isOneMachinePerNode: "none", "true" or "false"
    lastIter,       \* outcome of the last predicate invocation
    invocations,    \* predicate invocations of the current run
    readFailed,     \* some list call of the current run failed
    calls,          \* kinds of API calls issued by the operations so far
    runs,           \* results of the completed isOneMachinePerNode runs
    wpc,            \* waitForClusterSizeToBeHealthy: "off", "size", "ready",
                    \* "schedulable", "check" or "done"
    targetSize,     \* waitForClusterSizeToBeHealthy: its argument
    wResult,        \* waitForClusterSizeToBeHealthy: "none", "ok" or the error
    sizeIter,       \* outcome of the last invocation of the node-count predicate
    stages,         \* the stages started so far, in order
    passed,         \* the stages that have succeeded
    sizeMet,        \* the node count has equalled targetSize since the call
    startSize,      \* the node count when waitForClusterSizeToBeHealthy was called
    wReadFailed,    \* some read of the node-count poll failed
    stageReadFailed, \* some list call of the readiness or schedulability stage failed
    reconciled,     \* the reconciler has changed the cluster since the call
    readyInput,     \* nodesAreReady: its argument
    readyResult,    \* nodesAreReady: "none", "true" or "false"
    examined,       \* nodesAreReady: nodes whose conditions it has looked at
    scales,         \* cluster: machine-set name -> its scale sub-resource
    scaleArgs,      \* scaleMachineSet: its arguments name and replicas
    scaleRead,      \* scaleMachineSet: the scale objects returned by its reads
    scaleCalls,     \* scaleMachineSet: the calls it made on the scale sub-resource
    scaleResult,    \* scaleMachineSet: "none", "ok" or the error
    workerLabelled, \* cluster: names of the nodes that carry nodeWorkerRoleLabel
    op,             \* the operation called on its own, "none" when there is none
    opArg,          \* its argument: a machine, a node, or <<>> when it has none
    opInv,          \* predicate invocations of its poll so far
    opIter,         \* outcome of the last invocation of its predicate
    opList,         \* the Items of the list object its predicate last filled
    opCalls,        \* the get and delete calls it issued, in order
    opResult,       \* "none" while it runs, then "ok" or the error it returns
    opReturn,       \* the object it returns, as a sequence of length 0 or 1
    secrets,        \* cluster: secret name -> password (config.TargetNamespace)
    spc,            \* createMetal3PasswordSecrets: "off", "idle", "mariadb",
                    \* "ironic" or "done"
    secretBefore,   \* the secrets when the current run was called
    secretCalls,    \* the calls on secrets issued by the current run, in order
    secretRuns      \* the completed runs of createMetal3PasswordSecrets

clusterVars == <<nodes, machines>>
checkVars == <<pc, machineList, nodeList, checkResult, lastIter,
               invocations, readFailed, runs>>
waitVars == <<wpc, targetSize, wResult, sizeIter, stages, passed, sizeMet, startSize,
              wReadFailed, stageReadFailed, reconciled>>
readyVars == <<readyInput, readyResult, examined>>
scaleVars == <<scales, scaleArgs, scaleRead, scaleCalls, scaleResult>>
opVars == <<workerLabelled, op, opArg, opInv, opIter, opList, opCalls, opResult,
            opReturn>>
secretVars == <<secrets, spc, secretBefore, secretCalls, secretRuns>>
\* the variables of the operations that are modelled on their own
restVars == <<readyVars, scaleVars, opVars, secretVars>>
vars == <<nodes, machines, pc, tick, machineList, nodeList, checkResult, lastIter,
          invocations, readFailed, calls, runs, wpc, targetSize, wResult, sizeIter,
          stages, passed, sizeMet, startSize, wReadFailed, stageReadFailed,
          reconciled, readyInput, readyResult,
          examined, scales, scaleArgs, scaleRead, scaleCalls, scaleResult,
          workerLabelled, op, opArg, opInv, opIter, opList, opCalls, opResult,
          opReturn, secrets, spc, secretBefore, secretCalls, secretRuns>>

----------------------------------------------------------------------------
(* Bounds *)

\* e2e.WaitShort divided by the 5 s interval: intervals that fit in the timeout
ShortTicks == 2
\* e2e.WaitLong divided by the 5 s interval
LongTicks == 2
\* one minute divided by the 1 s interval of the schedulability wait
MinuteTicks == 1
\* the timeout of e2e.WaitUntilAllNodesAreReady divided by its interval
ReadyTicks == 1
\* length of the node sequences handed to nodesAreReady
MaxReadyLen == 3

NodeNames == {"n1", "n2"}
MachineNames == {"m1", "m2"}
\* the order in which the API server lists objects (by name)
NodeOrder == <<"n1", "n2">>
MachineOrder == <<"m1", "m2">>

----------------------------------------------------------------------------
(* Cluster objects *)

MachineApiNamespace == "openshift-machine-api"
OtherNamespace == "default"
MachineAnnotationKey == "machine"

EmptyString == <<"">>

\* fmt.Sprintf("%s/%s", namespace, name)
Sprintf(namespace, name) == <<namespace, name>>

NilRef == [nil |-> TRUE, name |-> ""]
RefTo(n) == [nil |-> FALSE, name |-> n]

AnnotationValues ==
    {Sprintf(ns, m) : ns \in {MachineApiNamespace, OtherNamespace}, m \in MachineNames}

\* node.Annotations restricted to the machine annotation: a map with zero or one key
AnnotationMaps ==
    {<<>>} \cup {[k \in {MachineAnnotationKey} |-> a] : a \in AnnotationValues}

\* node.Status.Conditions
ReadyConditions == <<[type |-> "Ready", status |-> "True"]>>
NotReadyConditions == <<[type |-> "Ready", status |-> "False"]>>
ConditionLists ==
    {<<>>, ReadyConditions, NotReadyConditions,
     <<[type |-> "MemoryPressure", status |-> "True"],
       [type |-> "Ready", status |-> "Unknown"]>>,
     <<[type |-> "MemoryPressure", status |-> "True"]>>,
     <<[type |-> "MemoryPressure", status |-> "False"],
       [type |-> "Ready", status |-> "True"]>>}

NodeObjects ==
    [annotations : AnnotationMaps, conditions : ConditionLists, unschedulable : BOOLEAN]
MachineObjects == [nodeRef : {NilRef} \cup {RefTo(n) : n \in NodeNames}]

Fixtures(names, objects) == UNION {[s -> objects] : s \in SUBSET names}

\* the key of a machine of the configured namespace
MachineKey(m) == Sprintf(MachineApiNamespace, m)

RECURSIVE ListSeq(_, _, _)
\* the objects of `objs`, as list items carrying their name, in the order `order`
ListSeq(order, objs, i) ==
    IF i > Len(order) THEN <<>>
    ELSE IF order[i] \in DOMAIN objs
         THEN <<[name |-> order[i]] @@ objs[order[i]]>> \o ListSeq(order, objs, i + 1)
         ELSE ListSeq(order, objs, i + 1)

\* client.List(..., &machineList) and client.List(..., &nodeList) when they succeed
ListMachines == ListSeq(MachineOrder, machines, 1)
ListNodes == ListSeq(NodeOrder, nodes, 1)

----------------------------------------------------------------------------
(* wait.PollImmediate: the predicate is invoked at once and then once per   *)
(* interval; (true, nil) ends the poll with success, a non-nil error ends   *)
(* it with that error, and (false, nil) at the deadline ends it with a      *)
(* timeout.                                                                 *)

\* a poller without a deadline
PollOutcome_NoDeadline(done, err, elapsed, ticks) ==
    IF err THEN "error"
    ELSE IF done THEN "success"
    ELSE "continue"

\* a poller that takes an error of the predicate for "not yet"
PollOutcome_ErrorRetried(done, err, elapsed, ticks) ==
    IF done /\ ~err THEN "success"
    ELSE IF elapsed >= ticks THEN "timeout"
    ELSE "continue"

PollOutcome(done, err, elapsed, ticks) ==
    IF err THEN "error"
    ELSE IF done THEN "success"
    ELSE IF elapsed >= ticks THEN "timeout"
    ELSE "continue"

----------------------------------------------------------------------------
(* isOneMachinePerNode *)

\* nodeNameToMachineAnnotation[nodeName]: a missing key reads as the empty string
MapLookup(map, k) == IF k \in DOMAIN map THEN map[k] ELSE EmptyString

RECURSIVE nodeNameToMachineAnnotation(_, _, _)
\* the loop over nodeList.Items: stops at the first node without the annotation
nodeNameToMachineAnnotation(nl, i, acc) ==
    IF i > Len(nl) THEN [ok |-> TRUE, map |-> acc]
    ELSE IF MachineAnnotationKey \notin DOMAIN nl[i].annotations
         THEN [ok |-> FALSE, map |-> acc]
         ELSE nodeNameToMachineAnnotation(nl, i + 1,
                [n \in DOMAIN acc \cup {nl[i].name} |->
                    IF n = nl[i].name THEN nl[i].annotations[MachineAnnotationKey]
                    ELSE acc[n]])

RECURSIVE machinesLinked_NoCompare(_, _, _)
\* machinesLinked without the comparison of the node's annotation
machinesLinked_NoCompare(ml, i, map) ==
    IF i > Len(ml) THEN "ok"
    ELSE IF ml[i].nodeRef.nil THEN "noNodeRef"
    ELSE machinesLinked_NoCompare(ml, i + 1, map)

RECURSIVE machinesLinked_NameOnly(_, _, _)
\* machinesLinked comparing only the name part of the annotation
machinesLinked_NameOnly(ml, i, map) ==
    IF i > Len(ml) THEN "ok"
    ELSE IF ml[i].nodeRef.nil THEN "noNodeRef"
    ELSE LET a == MapLookup(map, ml[i].nodeRef.name)
         IN  IF Len(a) # 2 THEN "mismatch"
             ELSE IF a[2] # ml[i].name THEN "mismatch"
             ELSE machinesLinked_NameOnly(ml, i + 1, map)

RECURSIVE machinesLinked_SwappedKey(_, _, _)
\* machinesLinked building the expected key as "<machine name>/<namespace>"
machinesLinked_SwappedKey(ml, i, map) ==
    IF i > Len(ml) THEN "ok"
    ELSE IF ml[i].nodeRef.nil THEN "noNodeRef"
    ELSE IF MapLookup(map, ml[i].nodeRef.name) # Sprintf(ml[i].name, MachineApiNamespace)
         THEN "mismatch"
         ELSE machinesLinked_SwappedKey(ml, i + 1, map)

RECURSIVE machinesLinked(_, _, _)
\* the loop over machineList.Items: stops at the first machine that fails
machinesLinked(ml, i, map) ==
    IF i > Len(ml) THEN "ok"
    ELSE IF ml[i].nodeRef.nil THEN "noNodeRef"
    ELSE IF MapLookup(map, ml[i].nodeRef.name) # Sprintf(MachineApiNamespace, ml[i].name)
         THEN "mismatch"
         ELSE machinesLinked(ml, i + 1, map)

\* snapshotCause without the comparison of the two counts
snapshotCause_NoCount(ml, nl) ==
    LET built == nodeNameToMachineAnnotation(nl, 1, <<>>)
    IN  IF ~built.ok THEN "noAnnotation"
        ELSE machinesLinked(ml, 1, built.map)

\* snapshotCause with the comparison of the two counts inverted
snapshotCause_InvertedCount(ml, nl) ==
    IF Len(ml) = Len(nl) THEN "count"
    ELSE LET built == nodeNameToMachineAnnotation(nl, 1, <<>>)
         IN  IF ~built.ok THEN "noAnnotation"
             ELSE machinesLinked(ml, 1, built.map)

\* the part of the predicate that follows the two list calls
snapshotCause(ml, nl) ==
    IF Len(ml) # Len(nl) THEN "count"
    ELSE LET built == nodeNameToMachineAnnotation(nl, 1, <<>>)
         IN  IF ~built.ok THEN "noAnnotation"
             ELSE machinesLinked(ml, 1, built.map)

\* the predicate returning an error for a machine without NodeRef
oneMachinePerNodePredicate_NoNodeRefFatal(mOK, nOK, ml, nl) ==
    IF ~mOK THEN [done |-> FALSE, err |-> FALSE, cause |-> "machineListError"]
    ELSE IF ~nOK THEN [done |-> FALSE, err |-> FALSE, cause |-> "nodeListError"]
    ELSE LET c == snapshotCause(ml, nl)
         IN  [done |-> c = "ok", err |-> c = "noNodeRef", cause |-> c]

\* the predicate evaluating the lists it holds even when the node list call
\* failed
oneMachinePerNodePredicate_LeftoverNodes(mOK, nOK, ml, nl) ==
    IF ~mOK THEN [done |-> FALSE, err |-> FALSE, cause |-> "machineListError"]
    ELSE LET c == snapshotCause(ml, nl)
         IN  [done |-> c = "ok", err |-> FALSE, cause |-> c]

\* the predicate handed to wait.PollImmediate: (done, err) and why
oneMachinePerNodePredicate(mOK, nOK, ml, nl) ==
    IF ~mOK THEN [done |-> FALSE, err |-> FALSE, cause |-> "machineListError"]
    ELSE IF ~nOK THEN [done |-> FALSE, err |-> FALSE, cause |-> "nodeListError"]
    ELSE LET c == snapshotCause(ml, nl)
         IN  [done |-> c = "ok", err |-> FALSE, cause |-> c]

NoIter == [done |-> FALSE, err |-> FALSE, cause |-> "none"]

\* isOneMachinePerNode is called: fresh empty lists, the poll starts at once
CheckStart ==
    /\ pc = "idle"
    /\ pc' = "polling"
    /\ tick' = 0
    /\ machineList' = <<>>
    /\ nodeList' = <<>>
    /\ checkResult' = "none"
    /\ lastIter' = NoIter
    /\ invocations' = 0
    /\ readFailed' = FALSE
    /\ UNCHANGED <<clusterVars, calls, runs, waitVars, restVars>>

\* one invocation of the predicate, and what wait.PollImmediate does with it
CheckIterate ==
    /\ pc = "polling"
    /\ \E mOK \in BOOLEAN, nOK \in BOOLEAN :
        LET ml == IF mOK THEN ListMachines ELSE machineList
            nl == IF mOK /\ nOK THEN ListNodes ELSE nodeList
            r == oneMachinePerNodePredicate(mOK, nOK, ml, nl)
            out == PollOutcome(r.done, r.err, tick, ShortTicks)
        IN  /\ machineList' = ml
            /\ nodeList' = nl
            /\ lastIter' = r
            /\ invocations' = invocations + 1
            /\ readFailed' = (readFailed \/ ~mOK \/ ~nOK)
            /\ calls' = calls \cup {"list"}
            /\ IF out = "continue"
               THEN /\ tick' = tick + 1
                    /\ UNCHANGED <<pc, checkResult, runs>>
               ELSE /\ pc' = "done"
                    /\ checkResult' = (IF out = "success" THEN "true" ELSE "false")
                    /\ runs' = Append(runs,
                            [result |-> IF out = "success" THEN "true" ELSE "false",
                             readFailed |-> (readFailed \/ ~mOK \/ ~nOK)])
                    /\ UNCHANGED tick
    /\ UNCHANGED <<clusterVars, waitVars, restVars>>

\* the caller runs isOneMachinePerNode again
CheckAgain ==
    /\ pc = "done"
    /\ wpc = "off"
    /\ Len(runs) < 2
    /\ pc' = "idle"
    /\ UNCHANGED <<clusterVars, tick, machineList, nodeList, checkResult, lastIter,
                   invocations, readFailed, calls, runs, waitVars, restVars>>

----------------------------------------------------------------------------
(* nodesAreReady *)

RECURSIVE IsNodeReady(_, _)
\* e2e.IsNodeReady: the status of the node's "Ready" condition is "True"
IsNodeReady(conditions, i) ==
    IF i > Len(conditions) THEN FALSE
    ELSE IF conditions[i].type = "Ready" THEN conditions[i].status = "True"
    ELSE IsNodeReady(conditions, i + 1)

RECURSIVE nodesAreReady_LastDecides(_, _)
\* nodesAreReady keeping the verdict of the last node instead of returning
nodesAreReady_LastDecides(ns, key) ==
    IF key > Len(ns) THEN [result |-> TRUE, examined |-> Len(ns)]
    ELSE IF key = Len(ns)
         THEN [result |-> IsNodeReady(ns[key].conditions, 1), examined |-> key]
         ELSE nodesAreReady_LastDecides(ns, key + 1)

RECURSIVE nodesAreReady(_, _)
\* the loop over nodes: returns false at the first node that is not ready
nodesAreReady(ns, key) ==
    IF key > Len(ns) THEN [result |-> TRUE, examined |-> Len(ns)]
    ELSE IF ~IsNodeReady(ns[key].conditions, 1)
         THEN [result |-> FALSE, examined |-> key]
         ELSE nodesAreReady(ns, key + 1)

\* a caller hands a sequence of nodes to nodesAreReady
ReadyCall ==
    /\ readyResult = "none"
    /\ LET r == nodesAreReady(readyInput, 1)
       IN  /\ readyResult' = (IF r.result THEN "true" ELSE "false")
           /\ examined' = r.examined
    /\ UNCHANGED <<clusterVars, checkVars, tick, calls, waitVars, readyInput, scaleVars,
                   opVars, secretVars>>

----------------------------------------------------------------------------
(* scaleMachineSet *)
(* A Go int is a 64-bit two's complement number, held here as its four      *)
(* 16-bit limbs, lowest first; an int32 is held as its two limbs.           *)

LimbBase == 65536

RECURSIVE Limbs(_, _)
\* the lowest k limbs of the natural number v
Limbs(v, k) == IF k = 0 THEN <<>> ELSE <<v % LimbBase>> \o Limbs(v \div LimbBase, k - 1)

\* the int and int32 that hold the small natural number v
Int64(v) == Limbs(v, 4)
Int32(v) == Limbs(v, 2)

\* the conversion int32(x) of an int: the low 32 bits
int32(x) == <<x[1], x[2]>>

\* the int that an int32 denotes (sign extension)
Widen(y) ==
    IF y[2] >= LimbBase \div 2 THEN <<y[1], y[2], LimbBase - 1, LimbBase - 1>>
    ELSE <<y[1], y[2], 0, 0>>

MachineSetNames == {"workers", "infra"}

\* autoscalingv1.Scale: Spec.Replicas and the fields scaleMachineSet leaves alone
ScaleObjects ==
    [replicas : {Int32(1), Int32(3)},
     resourceVersion : {"rv1", "rv2"},
     statusReplicas : {Int32(0), Int32(1)}]

\* values of the argument replicas: 0, 4, 2^31 - 1, 2^31, 2^32 + 4 and -1
ReplicaInputs ==
    {Int64(0), Int64(4), <<LimbBase - 1, LimbBase \div 2 - 1, 0, 0>>,
     <<0, LimbBase \div 2, 0, 0>>, <<4, 0, 1, 0>>,
     <<LimbBase - 1, LimbBase - 1, LimbBase - 1, LimbBase - 1>>}

\* scale.DeepCopy() with Spec.Replicas set
scaleUpdate(scale, replicas) == [scale EXCEPT !.replicas = int32(replicas)]

\* one call of scaleMachineSet(name, replicas): building the client, the read
\* and the update may each fail; a machine-set that does not exist is not found
scaleMachineSet ==
    /\ scaleResult = "none"
    /\ \E clientOK \in BOOLEAN, getOK \in BOOLEAN, updateOK \in BOOLEAN :
        LET name == scaleArgs.name
            found == getOK /\ name \in DOMAIN scales
        IN  IF ~clientOK
            THEN /\ scaleResult' = "error calling getScaleClient"
                 /\ UNCHANGED <<scales, scaleRead, scaleCalls>>
            ELSE IF ~found
            THEN /\ scaleResult' = "error calling scaleClient.Scales get"
                 /\ scaleCalls' = <<[op |-> "get", name |-> name]>>
                 /\ UNCHANGED <<scales, scaleRead>>
            ELSE LET update == scaleUpdate(scales[name], scaleArgs.replicas)
                 IN  /\ scaleRead' = <<scales[name]>>
                     /\ scaleCalls' = <<[op |-> "get", name |-> name],
                                        [op |-> "update", name |-> name,
                                         object |-> update]>>
                     /\ IF updateOK
                        THEN /\ scales' = [scales EXCEPT ![name] = update]
                             /\ scaleResult' = "ok"
                        ELSE /\ scaleResult' = "error calling scaleClient.Scales update"
                             /\ UNCHANGED scales
    /\ UNCHANGED <<clusterVars, checkVars, tick, calls, waitVars, readyVars, scaleArgs,
                   opVars, secretVars>>

----------------------------------------------------------------------------
(* waitForClusterSizeToBeHealthy *)

StageOrder == <<"size", "ready", "schedulable", "check">>

\* the node-count predicate asking for another try when a snapshot log fails
clusterSizePredicate_LogFailureRetried(setsOK, logOK, sizeOK, size, target) ==
    IF ~setsOK THEN [done |-> FALSE, err |-> FALSE, cause |-> "machineSetsSnapShotLogs"]
    ELSE IF ~logOK THEN [done |-> FALSE, err |-> FALSE, cause |-> "nodesSnapShotLogs"]
    ELSE IF ~sizeOK THEN [done |-> FALSE, err |-> TRUE, cause |-> "getClusterSize"]
    ELSE [done |-> size = target, err |-> FALSE, cause |-> "size"]

\* the node-count predicate returning an error when the size is not the target
clusterSizePredicate_MismatchIsError(setsOK, logOK, sizeOK, size, target) ==
    IF ~setsOK THEN [done |-> FALSE, err |-> TRUE, cause |-> "machineSetsSnapShotLogs"]
    ELSE IF ~logOK THEN [done |-> FALSE, err |-> TRUE, cause |-> "nodesSnapShotLogs"]
    ELSE IF ~sizeOK THEN [done |-> FALSE, err |-> TRUE, cause |-> "getClusterSize"]
    ELSE [done |-> size = target, err |-> size # target, cause |-> "size"]

\* the predicate of the node-count poll: the two snapshot logs, then the size
clusterSizePredicate(setsOK, logOK, sizeOK, size, target) ==
    IF ~setsOK THEN [done |-> FALSE, err |-> TRUE, cause |-> "machineSetsSnapShotLogs"]
    ELSE IF ~logOK THEN [done |-> FALSE, err |-> TRUE, cause |-> "nodesSnapShotLogs"]
    ELSE IF ~sizeOK THEN [done |-> FALSE, err |-> TRUE, cause |-> "getClusterSize"]
    ELSE [done |-> size = target, err |-> FALSE, cause |-> "size"]

\* getClusterSize when e2e.GetNodes succeeds: len(nodes)
getClusterSize == Len(ListNodes)

RECURSIVE allNodesReady(_, _)
\* the predicate of e2e.WaitUntilAllNodesAreReady on the nodes it listed
allNodesReady(nl, i) ==
    IF i > Len(nl) THEN TRUE
    ELSE IF ~IsNodeReady(nl[i].conditions, 1) THEN FALSE
    ELSE allNodesReady(nl, i + 1)

\* allNodesSchedulable asking for at least one node
allNodesSchedulable_NeedsNode(nl, i) ==
    Len(nl) >= 1 /\ \A j \in i..Len(nl) : nl[j].unschedulable # TRUE

\* allNodesSchedulable looking at the first node only
allNodesSchedulable_FirstOnly(nl, i) ==
    IF i > Len(nl) THEN TRUE ELSE nl[i].unschedulable # TRUE

RECURSIVE allNodesSchedulable(_, _)
\* the loop of waitUntilAllNodesAreSchedulable over nodeList.Items
allNodesSchedulable(nl, i) ==
    IF i > Len(nl) THEN TRUE
    ELSE IF nl[i].unschedulable = TRUE THEN FALSE
    ELSE allNodesSchedulable(nl, i + 1)

\* the predicate of waitUntilAllNodesAreSchedulable
schedulablePredicate(listOK, nl) ==
    IF ~listOK THEN [done |-> FALSE, err |-> FALSE, cause |-> "nodeListError"]
    ELSE [done |-> allNodesSchedulable(nl, 1), err |-> FALSE, cause |-> "unschedulable"]

\* what follows a stage that ended: the next stage even when it failed
stageAfter_Continues(next, out) == next

\* what follows a stage that ended: the next stage, or the return of its error
stageAfter(next, out) == IF out = "success" THEN next ELSE "done"

\* the poll of the current stage goes on, or the stage ends with `out`:
\* `stage` has then run, `next` follows it and `failure` is returned if it failed
StageEnds(stage, next, out, failure) ==
    IF out = "continue"
    THEN /\ tick' = tick + 1
         /\ UNCHANGED <<wpc, wResult, stages, passed>>
    ELSE /\ wpc' = stageAfter(next, out)
         /\ tick' = (IF wpc' = "done" THEN tick ELSE 0)
         /\ passed' = (IF out = "success" THEN passed \cup {stage} ELSE passed)
         /\ stages' = (IF wpc' = "done" THEN stages ELSE Append(stages, wpc'))
         /\ wResult' = (IF wpc' = "done" THEN failure ELSE wResult)

\* one invocation of the node-count predicate
SizeIterate ==
    /\ wpc = "size"
    /\ \E setsOK \in BOOLEAN, logOK \in BOOLEAN, sizeOK \in BOOLEAN :
        LET r == clusterSizePredicate(setsOK, logOK, sizeOK, getClusterSize, targetSize)
            out == PollOutcome(r.done, r.err, tick, LongTicks)
        IN  /\ sizeIter' = r
            /\ wReadFailed' = (wReadFailed \/ r.cause # "size")
            /\ StageEnds("size", "ready", out,
                    IF out = "timeout" THEN "sizeTimeout" ELSE "sizeError")
    /\ calls' = calls \cup {"list"}
    /\ UNCHANGED <<clusterVars, checkVars, targetSize, sizeMet, startSize,
                   stageReadFailed, reconciled, restVars>>

\* one invocation of the predicate of e2e.WaitUntilAllNodesAreReady
ReadyIterate ==
    /\ wpc = "ready"
    /\ \E listOK \in BOOLEAN :
        LET done == listOK /\ allNodesReady(ListNodes, 1)
            out == PollOutcome(done, FALSE, tick, ReadyTicks)
        IN  /\ StageEnds("ready", "schedulable", out, "notReady")
            /\ stageReadFailed' = (stageReadFailed \/ ~listOK)
    /\ calls' = calls \cup {"list"}
    /\ UNCHANGED <<clusterVars, checkVars, targetSize, sizeIter, sizeMet, startSize,
                   wReadFailed, reconciled, restVars>>

\* one invocation of the predicate of waitUntilAllNodesAreSchedulable; when
\* the wait succeeds isOneMachinePerNode is called
SchedulableIterate ==
    /\ wpc = "schedulable"
    /\ \E listOK \in BOOLEAN :
        LET r == schedulablePredicate(listOK, ListNodes)
            out == PollOutcome(r.done, r.err, tick, MinuteTicks)
        IN  /\ StageEnds("schedulable", "check", out, "notSchedulable")
            /\ pc' = (IF wpc' = "check" THEN "polling" ELSE pc)
            /\ stageReadFailed' = (stageReadFailed \/ ~listOK)
    /\ calls' = calls \cup {"list"}
    /\ UNCHANGED <<clusterVars, machineList, nodeList, checkResult, lastIter, invocations,
                   readFailed, runs, targetSize, sizeIter, sizeMet, startSize,
                   wReadFailed, reconciled, restVars>>

\* isOneMachinePerNode has returned to waitForClusterSizeToBeHealthy
WaitReturn ==
    /\ wpc = "check"
    /\ pc = "done"
    /\ StageEnds("check", "done", IF checkResult = "true" THEN "success" ELSE "failure",
            IF checkResult = "true" THEN "ok" ELSE "notOneMachinePerNode")
    /\ UNCHANGED <<clusterVars, pc, machineList, nodeList, checkResult, lastIter,
                   invocations, readFailed, runs, calls, targetSize, sizeIter, sizeMet,
                   startSize, wReadFailed, stageReadFailed, reconciled, restVars>>

----------------------------------------------------------------------------
(* The cluster's reconciler, acting while waitForClusterSizeToBeHealthy     *)
(* waits for the size, the readiness and the schedulability of the nodes.   *)
(* Node NodeOrder[i] is the node of machine MachineOrder[i]; the reconciler *)
(* moves one such pair from one of its states to another.                   *)

NodeObject(annotations, conditions, unschedulable) ==
    [annotations |-> annotations, conditions |-> conditions,
     unschedulable |-> unschedulable]

Annotated(key) == [k \in {MachineAnnotationKey} |-> key]

\* the states of the pair: <<node or none, machine or none>>, each a sequence
PairStates(n, m) ==
    {<< <<>>, <<>> >>,
     << <<>>, <<[nodeRef |-> NilRef]>> >>,
     << <<NodeObject(<<>>, NotReadyConditions, FALSE)>>, <<[nodeRef |-> NilRef]>> >>,
     << <<NodeObject(<<>>, ReadyConditions, FALSE)>>, <<>> >>,
     << <<NodeObject(<<>>, ReadyConditions, FALSE)>>, <<[nodeRef |-> RefTo(n)]>> >>,
     << <<NodeObject(Annotated(MachineKey(m)), ReadyConditions, FALSE)>>,
        <<[nodeRef |-> NilRef]>> >>,
     << <<NodeObject(Annotated(MachineKey(m)), NotReadyConditions, FALSE)>>,
        <<[nodeRef |-> RefTo(n)]>> >>,
     << <<NodeObject(Annotated(MachineKey(m)), ReadyConditions, TRUE)>>,
        <<[nodeRef |-> RefTo(n)]>> >>,
     << <<NodeObject(Annotated(MachineKey(m)), ReadyConditions, FALSE)>>,
        <<[nodeRef |-> RefTo(n)]>> >>,
     << <<NodeObject(Annotated(Sprintf(OtherNamespace, m)), ReadyConditions, FALSE)>>,
        <<[nodeRef |-> RefTo(n)]>> >>}

\* `objs` with the object named `name` replaced by the one in `opt`, if any
WithObject(objs, name, opt) ==
    [x \in (DOMAIN objs \ {name}) \cup (IF opt = <<>> THEN {} ELSE {name}) |->
        IF x = name THEN opt[1] ELSE objs[x]]

Reconcile ==
    /\ wpc \in {"size", "ready", "schedulable"}
    /\ \E i \in 1..Len(NodeOrder) :
        \E st \in PairStates(NodeOrder[i], MachineOrder[i]) :
            /\ nodes' = WithObject(nodes, NodeOrder[i], st[1])
            /\ machines' = WithObject(machines, MachineOrder[i], st[2])
            /\ <<nodes', machines'>> # <<nodes, machines>>
    /\ sizeMet' = (sizeMet \/ Cardinality(DOMAIN nodes') = targetSize)
    /\ reconciled' = TRUE
    /\ UNCHANGED <<checkVars, tick, calls, wpc, targetSize, wResult, sizeIter, stages,
                   passed, startSize, wReadFailed, stageReadFailed, restVars>>

----------------------------------------------------------------------------
(* Specification of isOneMachinePerNode run, once or twice, against an      *)
(* arbitrary unchanging cluster whose list calls may fail                   *)

ScaleOff ==
    /\ scales = <<>>
    /\ scaleArgs = [name |-> "", replicas |-> Int64(0)]
    /\ scaleRead = <<>>
    /\ scaleCalls = <<>>
    /\ scaleResult = "none"

ReadyOff ==
    /\ readyInput = <<>>
    /\ readyResult = "none"
    /\ examined = 0

SecretOff ==
    /\ secrets = <<>>
    /\ spc = "off"
    /\ secretBefore = <<>>
    /\ secretCalls = <<>>
    /\ secretRuns = <<>>

OpOff ==
    /\ workerLabelled = {}
    /\ op = "none"
    /\ opArg = <<>>
    /\ opInv = 0
    /\ opIter = NoIter
    /\ opList = <<>>
    /\ opCalls = <<>>
    /\ opResult = "none"
    /\ opReturn = <<>>

WaitOff ==
    /\ wpc = "off"
    /\ targetSize = 0
    /\ wResult = "none"
    /\ sizeIter = NoIter
    /\ stages = <<>>
    /\ passed = {}
    /\ sizeMet = FALSE
    /\ startSize = 0
    /\ wReadFailed = FALSE
    /\ stageReadFailed = FALSE
    /\ reconciled = FALSE

Init ==
    /\ nodes \in {f \in Fixtures(NodeNames, NodeObjects) :
                    \A n \in DOMAIN f : /\ f[n].conditions = ReadyConditions
                                         /\ ~f[n].unschedulable}
    /\ machines \in Fixtures(MachineNames, MachineObjects)
    /\ pc = "idle"
    /\ tick = 0
    /\ machineList = <<>>
    /\ nodeList = <<>>
    /\ checkResult = "none"
    /\ lastIter = NoIter
    /\ invocations = 0
    /\ readFailed = FALSE
    /\ calls = {}
    /\ runs = <<>>
    /\ WaitOff
    /\ ReadyOff
    /\ ScaleOff
    /\ OpOff
    /\ SecretOff

Next ==
    \/ CheckStart
    \/ CheckIterate
    \/ CheckAgain

Spec == Init /\ [][Next]_vars

----------------------------------------------------------------------------
(* Specification of nodesAreReady applied to arbitrary sequences of nodes *)

CheckOff ==
    /\ pc = "off"
    /\ tick = 0
    /\ machineList = <<>>
    /\ nodeList = <<>>
    /\ checkResult = "none"
    /\ lastIter = NoIter
    /\ invocations = 0
    /\ readFailed = FALSE
    /\ runs = <<>>

InitReady ==
    /\ nodes = <<>>
    /\ machines = <<>>
    /\ calls = {}
    /\ CheckOff
    /\ WaitOff
    /\ \E k \in 0..MaxReadyLen :
            readyInput \in [1..k -> [name : {"n1"}, conditions : ConditionLists]]
    /\ readyResult = "none"
    /\ examined = 0
    /\ ScaleOff
    /\ OpOff
    /\ SecretOff

SpecReady == InitReady /\ [][ReadyCall]_vars

----------------------------------------------------------------------------
(* Specification of scaleMachineSet called once on arbitrary machine-sets *)

InitScale ==
    /\ nodes = <<>>
    /\ machines = <<>>
    /\ calls = {}
    /\ CheckOff
    /\ WaitOff
    /\ ReadyOff
    /\ scales \in Fixtures(MachineSetNames, ScaleObjects)
    /\ scaleArgs \in [name : MachineSetNames, replicas : ReplicaInputs]
    /\ scaleRead = <<>>
    /\ scaleCalls = <<>>
    /\ scaleResult = "none"
    /\ OpOff
    /\ SecretOff

SpecScale == InitScale /\ [][scaleMachineSet]_vars

----------------------------------------------------------------------------
(* Specification of waitForClusterSizeToBeHealthy, called with any target   *)
(* size on a cluster that the reconciler keeps changing                     *)

InitWait ==
    /\ \E st1 \in PairStates(NodeOrder[1], MachineOrder[1]),
          st2 \in PairStates(NodeOrder[2], MachineOrder[2]) :
            /\ nodes = WithObject(WithObject(<<>>, NodeOrder[1], st1[1]),
                                  NodeOrder[2], st2[1])
            /\ machines = WithObject(WithObject(<<>>, MachineOrder[1], st1[2]),
                                     MachineOrder[2], st2[2])
    /\ calls = {}
    /\ CheckOff
    /\ wpc = "size"
    /\ targetSize \in 0..Cardinality(NodeNames)
    /\ wResult = "none"
    /\ sizeIter = NoIter
    /\ stages = <<"size">>
    /\ passed = {}
    /\ sizeMet = (Cardinality(DOMAIN nodes) = targetSize)
    /\ startSize = Cardinality(DOMAIN nodes)
    /\ wReadFailed = FALSE
    /\ stageReadFailed = FALSE
    /\ reconciled = FALSE
    /\ ReadyOff
    /\ ScaleOff
    /\ OpOff
    /\ SecretOff

NextWait ==
    \/ SizeIterate
    \/ ReadyIterate
    \/ SchedulableIterate
    \/ CheckIterate
    \/ WaitReturn
    \/ Reconcile

SpecWait == InitWait /\ [][NextWait]_vars

----------------------------------------------------------------------------
(* Properties of isOneMachinePerNode *)

\* the last predicate invocation read both lists
BothListsRead == lastIter.cause \notin {"none", "machineListError", "nodeListError"}

\* the machine annotation of the item of `nl` named `n`, a set with at most one value
AnnotationOf(nl, n) ==
    {nl[j].annotations[MachineAnnotationKey] :
        j \in {k \in 1..Len(nl) : /\ nl[k].name = n
                                  /\ MachineAnnotationKey \in DOMAIN nl[k].annotations}}

\* C1: isOneMachinePerNode returns true only if the iteration that ended the
\* poll read both lists and the snapshot it read has as many machines as
\* nodes, the machine annotation on every node, a NodeRef on every machine,
\* and on the node named by each machine's NodeRef the annotation
\* "<namespace>/<machine name>".
C1_TrueOnlyOnConsistentSnapshot ==
    checkResult = "true" =>
        /\ BothListsRead
        /\ machineList = ListMachines
        /\ nodeList = ListNodes
        /\ Len(machineList) = Len(nodeList)
        /\ \A j \in 1..Len(nodeList) :
                MachineAnnotationKey \in DOMAIN nodeList[j].annotations
        /\ \A i \in 1..Len(machineList) :
                /\ ~machineList[i].nodeRef.nil
                /\ AnnotationOf(nodeList, machineList[i].nodeRef.name)
                       = {<<MachineApiNamespace, machineList[i].name>>}

C1_Witness ==
    /\ checkResult = "true"
    /\ Len(machineList) = 2
    /\ readFailed

\* C2: a snapshot that isOneMachinePerNode accepts is a one-to-one
\* correspondence: machine -> NodeRef.Name is injective and onto the nodes,
\* and the annotation of every node is the key of exactly one machine.
C2_AcceptedSnapshotIsBijection ==
    checkResult = "true" =>
        LET M == 1..Len(machineList)
            N == 1..Len(nodeList)
        IN  /\ \A i \in M, k \in M :
                    machineList[i].nodeRef.name = machineList[k].nodeRef.name => i = k
            /\ {machineList[i].nodeRef.name : i \in M} = {nodeList[j].name : j \in N}
            /\ \A j \in N :
                    Cardinality({i \in M :
                        AnnotationOf(nodeList, nodeList[j].name)
                            = {<<MachineApiNamespace, machineList[i].name>>}}) = 1

C2_Witness ==
    /\ checkResult = "true"
    /\ Len(machineList) = 2
    /\ machineList[1].nodeRef.name = "n2"
    /\ machineList[2].nodeRef.name = "n1"

\* some node's annotation names no machine of the namespace, or a machine
\* other than the one whose NodeRef names that node
BadAnnotation ==
    \E n \in DOMAIN nodes :
        /\ MachineAnnotationKey \in DOMAIN nodes[n].annotations
        /\ LET a == nodes[n].annotations[MachineAnnotationKey]
           IN  \/ \A m \in DOMAIN machines : a # <<MachineApiNamespace, m>>
               \/ \E m \in DOMAIN machines :
                    /\ machines[m].nodeRef = RefTo(n)
                    /\ a # <<MachineApiNamespace, m>>

\* C3: on an unchanging cluster with such a node, isOneMachinePerNode never
\* returns true, every predicate invocation is (false, nil), and false is
\* returned only by the invocation made at the deadline.
C3_BadAnnotationNeverAccepted ==
    BadAnnotation =>
        /\ checkResult # "true"
        /\ ~lastIter.done
        /\ ~lastIter.err
        /\ checkResult = "false" => (tick = ShortTicks /\ invocations = ShortTicks + 1)

C3_Witness ==
    /\ BadAnnotation
    /\ checkResult = "false"
    /\ ~readFailed
    /\ Cardinality(DOMAIN nodes) = Cardinality(DOMAIN machines)
    /\ \A m \in DOMAIN machines : ~machines[m].nodeRef.nil
    /\ \A n \in DOMAIN nodes : MachineAnnotationKey \in DOMAIN nodes[n].annotations

\* as many machines as nodes, every node annotated with the key of a machine
\* whose NodeRef names that node
Converged ==
    /\ Cardinality(DOMAIN machines) = Cardinality(DOMAIN nodes)
    /\ \A n \in DOMAIN nodes :
        /\ MachineAnnotationKey \in DOMAIN nodes[n].annotations
        /\ \E m \in DOMAIN machines :
            /\ nodes[n].annotations[MachineAnnotationKey] = <<MachineApiNamespace, m>>
            /\ machines[m].nodeRef = RefTo(n)

\* C4: on an unchanging converged cluster whose list calls succeed,
\* isOneMachinePerNode returns true from its first predicate invocation,
\* made before any interval has elapsed.
C4_ConvergedAcceptedAtOnce ==
    (Converged /\ invocations >= 1 /\ ~readFailed) =>
        /\ checkResult = "true"
        /\ invocations = 1
        /\ tick = 0

C4_Witness ==
    /\ Converged
    /\ Cardinality(DOMAIN nodes) = 2
    /\ checkResult = "true"
    /\ invocations = 1

----------------------------------------------------------------------------
(* Properties of nodesAreReady *)

\* the node has a "Ready" condition whose status is "True"
HasReadyTrue(node) ==
    \E i \in 1..Len(node.conditions) :
        node.conditions[i].type = "Ready" /\ node.conditions[i].status = "True"

\* C6: nodesAreReady returns true exactly when every node of its argument
\* has the ready condition in state true; it returns false at the first node
\* that is not ready, wherever it stands, and looks at no node after it.
C6_NodesAreReadyAllOrNothing ==
    readyResult # "none" =>
        LET notReady == {i \in 1..Len(readyInput) : ~HasReadyTrue(readyInput[i])}
        IN  /\ (readyResult = "true") = (notReady = {})
            /\ readyResult = "true" => examined = Len(readyInput)
            /\ readyResult = "false" =>
                    /\ examined \in notReady
                    /\ \A i \in notReady : examined <= i

C6_Witness ==
    /\ readyResult = "false"
    /\ Len(readyInput) = 3
    /\ HasReadyTrue(readyInput[1])
    /\ ~HasReadyTrue(readyInput[2])
    /\ HasReadyTrue(readyInput[3])
    /\ examined = 2

----------------------------------------------------------------------------
(* Properties of scaleMachineSet *)

\* scaleMachineSet made one read and then one update of the named machine-set,
\* and the object it sent differs from the one it read at most in Spec.Replicas
OneReadOneUpdate ==
    /\ Len(scaleCalls) = 2
    /\ scaleCalls[1] = [op |-> "get", name |-> scaleArgs.name]
    /\ scaleCalls[2].op = "update"
    /\ scaleCalls[2].name = scaleArgs.name
    /\ Len(scaleRead) = 1
    /\ scaleCalls[2].object.resourceVersion = scaleRead[1].resourceVersion
    /\ scaleCalls[2].object.statusReplicas = scaleRead[1].statusReplicas

\* C10: scaleMachineSet(name, replicas) reads the scale sub-resource once and
\* then updates it once with the object read, changed only in its desired
\* replica count, which equals replicas; a failed read is followed by no
\* update, and a failed read or update is returned without a retry.
C10_ScaleSetsReplicas ==
    /\ scaleResult \in {"ok", "error calling scaleClient.Scales update"} =>
            /\ OneReadOneUpdate
            /\ Widen(scaleCalls[2].object.replicas) = scaleArgs.replicas
    /\ scaleResult = "error calling scaleClient.Scales get" =>
            scaleCalls = <<[op |-> "get", name |-> scaleArgs.name]>>
    /\ scaleResult = "error calling getScaleClient" => scaleCalls = <<>>

\* the same statement for a replicas argument that an int32 can hold
C10_ScaleSetsReplicasInRange ==
    Widen(int32(scaleArgs.replicas)) = scaleArgs.replicas => C10_ScaleSetsReplicas

----------------------------------------------------------------------------
(* Properties of waitForClusterSizeToBeHealthy *)

StageSet == {StageOrder[i] : i \in 1..Len(StageOrder)}

\* the number of stages that have run when the error `e` is returned
StagesBefore(e) ==
    CASE e \in {"sizeTimeout", "sizeError"} -> 1
      [] e = "notReady" -> 2
      [] e = "notSchedulable" -> 3
      [] e = "notOneMachinePerNode" -> 4

\* C7: the stages run one at a time in the order node-count poll, readiness
\* wait, schedulability wait, one-machine-per-node check; a stage starts only
\* after the one before it succeeded, a failing stage makes the workflow
\* return its error with no later stage started, and the workflow returns
\* success only after all four succeeded.
C7_StagesInOrder ==
    /\ Len(stages) <= Len(StageOrder)
    /\ \A i \in 1..Len(stages) : stages[i] = StageOrder[i]
    /\ \A i \in 2..Len(stages) : StageOrder[i - 1] \in passed
    /\ passed \subseteq {stages[i] : i \in 1..Len(stages)}
    /\ wpc # "done" => (wpc = stages[Len(stages)] /\ wpc \notin passed /\ wResult = "none")
    /\ pc = "polling" => wpc = "check"
    /\ wpc = "done" => wResult # "none"
    /\ wResult = "ok" => (wpc = "done" /\ passed = StageSet)
    /\ wResult \notin {"none", "ok"} =>
            /\ wpc = "done"
            /\ Len(stages) = StagesBefore(wResult)
            /\ stages[Len(stages)] \notin passed

C7_Witness ==
    /\ wResult = "ok"
    /\ startSize = 1
    /\ targetSize = 2
    /\ stages = StageOrder

\* C8: when every read succeeds and the node count never equals the target,
\* every invocation of the node-count predicate is (false, nil), no later
\* stage starts, and the workflow fails with the timeout of the node-count
\* poll, at its deadline.
C8_SizeNeverMetTimesOut ==
    (~sizeMet /\ ~wReadFailed) =>
        /\ ~sizeIter.done
        /\ ~sizeIter.err
        /\ stages = <<"size">>
        /\ wResult \in {"none", "sizeTimeout"}
        /\ wResult = "sizeTimeout" => tick = LongTicks
        /\ wpc = "done" => wResult = "sizeTimeout"

C8_Witness ==
    /\ wResult = "sizeTimeout"
    /\ ~sizeMet
    /\ ~wReadFailed
    /\ targetSize = 2
    /\ startSize = 0
    /\ Cardinality(DOMAIN nodes) = 1

\* C9: a failure of the node list read that computes the cluster size is
\* retried by the node-count poll: it does not make the workflow return the
\* read's error.
C9_SizeReadFailureRetried ==
    sizeIter.cause = "getClusterSize" => wResult # "sizeError"

----------------------------------------------------------------------------
(* The polls that are called on their own: waitUntilAllNodesAreSchedulable, *)
(* getWorkerNode and deleteMachine                                          *)

\* what the caller of wait.PollImmediate returns for the poll's outcome
PollReturn(out) ==
    CASE out = "success" -> "ok"
      [] out = "timeout" -> "timeout"
      [] out = "error" -> "error"
      [] OTHER -> "none"

\* one invocation of the predicate of waitUntilAllNodesAreSchedulable, whose
\* nodeList is a fresh object in every invocation
SchedulableWait ==
    /\ op = "waitUntilAllNodesAreSchedulable"
    /\ opResult = "none"
    /\ \E listOK \in BOOLEAN :
        LET nl == IF listOK THEN ListNodes ELSE <<>>
            r == schedulablePredicate(listOK, nl)
            out == PollOutcome(r.done, r.err, tick, MinuteTicks)
        IN  /\ opList' = nl
            /\ opIter' = r
            /\ opInv' = opInv + 1
            /\ tick' = (IF out = "continue" THEN tick + 1 ELSE tick)
            /\ opResult' = PollReturn(out)
    /\ UNCHANGED <<clusterVars, checkVars, calls, waitVars, readyVars, scaleVars,
                   secretVars, workerLabelled, op, opArg, opCalls, opReturn>>

\* a list call without the label selector
SelectWorkers_All(nl, i) == nl

RECURSIVE SelectWorkers(_, _)
\* the nodes of `nl` from position i on that match the label selector
\* nodeWorkerRoleLabel = ""
SelectWorkers(nl, i) ==
    IF i > Len(nl) THEN <<>>
    ELSE IF nl[i].name \in workerLabelled THEN <<nl[i]>> \o SelectWorkers(nl, i + 1)
    ELSE SelectWorkers(nl, i + 1)

\* the predicate of getWorkerNode
workerPredicate(listOK, nl) ==
    IF ~listOK THEN [done |-> FALSE, err |-> FALSE, cause |-> "nodeListError"]
    ELSE IF Len(nl) < 1 THEN [done |-> FALSE, err |-> FALSE, cause |-> "noWorker"]
    ELSE [done |-> TRUE, err |-> FALSE, cause |-> "ok"]

\* one invocation of the predicate of getWorkerNode, whose nodeList is declared
\* outside the predicate and keeps its Items when the list call fails
WorkerLookup ==
    /\ op = "getWorkerNode"
    /\ opResult = "none"
    /\ \E listOK \in BOOLEAN :
        LET nl == IF listOK THEN SelectWorkers(ListNodes, 1) ELSE opList
            r == workerPredicate(listOK, nl)
            out == PollOutcome(r.done, r.err, tick, MinuteTicks)
        IN  /\ opList' = nl
            /\ opIter' = r
            /\ opInv' = opInv + 1
            /\ tick' = (IF out = "continue" THEN tick + 1 ELSE tick)
            /\ opResult' = PollReturn(out)
            /\ opReturn' = (IF out = "success" THEN <<nl[1]>> ELSE <<>>)
    /\ UNCHANGED <<clusterVars, checkVars, calls, waitVars, readyVars, scaleVars,
                   secretVars, workerLabelled, op, opArg, opCalls>>

\* the predicate of deleteMachine that asks for another try when the delete
\* call fails
deletePredicate_Retries(deleteOK) ==
    IF ~deleteOK THEN [done |-> FALSE, err |-> FALSE, cause |-> "deleteError"]
    ELSE [done |-> TRUE, err |-> FALSE, cause |-> "ok"]

\* the predicate of deleteMachine
deletePredicate(deleteOK) ==
    IF ~deleteOK THEN [done |-> FALSE, err |-> TRUE, cause |-> "deleteError"]
    ELSE [done |-> TRUE, err |-> FALSE, cause |-> "ok"]

\* one invocation of the predicate of deleteMachine: a delete call, which
\* fails when the machine does not exist and may fail when it does
DeleteCall ==
    /\ op = "deleteMachine"
    /\ opResult = "none"
    /\ \E deleteOK \in BOOLEAN :
        LET name == opArg[1].name
            r == deletePredicate(deleteOK)
            out == PollOutcome(r.done, r.err, tick, MinuteTicks)
        IN  /\ deleteOK => name \in DOMAIN machines
            /\ machines' = (IF deleteOK THEN WithObject(machines, name, <<>>)
                            ELSE machines)
            /\ opCalls' = Append(opCalls, [verb |-> "delete", name |-> name])
            /\ opIter' = r
            /\ opInv' = opInv + 1
            /\ tick' = (IF out = "continue" THEN tick + 1 ELSE tick)
            /\ opResult' = PollReturn(out)
    /\ UNCHANGED <<nodes, checkVars, calls, waitVars, readyVars, scaleVars,
                   secretVars, workerLabelled, op, opArg, opList, opReturn>>

----------------------------------------------------------------------------
(* Specification of the polling operations, each called once against a      *)
(* cluster that keeps changing and whose calls may fail:                    *)
(* waitForClusterSizeToBeHealthy with its four polls or nodesAreReady (op   *)
(* is then "none"), or isOneMachinePerNode, waitUntilAllNodesAreSchedulable,*)
(* getWorkerNode or deleteMachine on its own.                               *)

PollOps == {"isOneMachinePerNode", "waitUntilAllNodesAreSchedulable", "getWorkerNode",
            "deleteMachine"}

NodeOf(m, annotated, unschedulable) ==
    <<NodeObject(IF annotated THEN Annotated(MachineKey(m)) ELSE <<>>,
                 ReadyConditions, unschedulable)>>

MachineOf(n, linked) == <<[nodeRef |-> IF linked THEN RefTo(n) ELSE NilRef]>>

\* the states of the pair of node n and machine m that matter to operation o
OpStates(o, n, m) ==
    CASE o = "isOneMachinePerNode" ->
            {<< <<>>, <<>> >>,
             << <<>>, MachineOf(n, FALSE) >>,
             << NodeOf(m, FALSE, FALSE), MachineOf(n, TRUE) >>,
             << NodeOf(m, TRUE, FALSE), MachineOf(n, FALSE) >>,
             << NodeOf(m, TRUE, FALSE), MachineOf(n, TRUE) >>}
      [] o = "waitUntilAllNodesAreSchedulable" ->
            {<< <<>>, <<>> >>,
             << NodeOf(m, TRUE, TRUE), MachineOf(n, TRUE) >>,
             << NodeOf(m, TRUE, FALSE), MachineOf(n, TRUE) >>}
      [] o = "getWorkerNode" ->
            {<< <<>>, <<>> >>,
             << NodeOf(m, TRUE, FALSE), MachineOf(n, TRUE) >>}
      [] OTHER ->
            {<< <<>>, <<>> >>,
             << <<>>, MachineOf(n, FALSE) >>,
             << NodeOf(m, TRUE, FALSE), MachineOf(n, TRUE) >>}

\* the sets of nodes that may carry the worker role label while o runs
OpLabels(o, ns) == IF o = "getWorkerNode" THEN SUBSET (DOMAIN ns) ELSE {{}}

PollRunning ==
    \/ op = "isOneMachinePerNode" /\ pc = "polling"
    \/ op \in PollOps \ {"isOneMachinePerNode"} /\ opResult = "none"

\* the cluster changes under the operation that polls it
Drift ==
    /\ PollRunning
    /\ \E i \in 1..Len(NodeOrder) :
        \E st \in OpStates(op, NodeOrder[i], MachineOrder[i]) :
            /\ nodes' = WithObject(nodes, NodeOrder[i], st[1])
            /\ machines' = WithObject(machines, MachineOrder[i], st[2])
            /\ workerLabelled' \in OpLabels(op, nodes')
            /\ <<nodes', machines', workerLabelled'>> # <<nodes, machines, workerLabelled>>
    /\ UNCHANGED <<checkVars, tick, calls, waitVars, readyVars, scaleVars,
                   secretVars, op, opArg, opInv, opIter, opList, opCalls,
                   opResult, opReturn>>

\* nodesAreReady is called when no other operation runs
ReadyAlone ==
    /\ wpc = "off"
    /\ op = "none"
    /\ ReadyCall

InitPoll ==
    \/ InitWait
    \/ InitReady
    \/ /\ op \in PollOps
       /\ \E st1 \in OpStates(op, NodeOrder[1], MachineOrder[1]),
             st2 \in OpStates(op, NodeOrder[2], MachineOrder[2]) :
               /\ nodes = WithObject(WithObject(<<>>, NodeOrder[1], st1[1]),
                                     NodeOrder[2], st2[1])
               /\ machines = WithObject(WithObject(<<>>, MachineOrder[1], st1[2]),
                                        MachineOrder[2], st2[2])
       /\ workerLabelled \in OpLabels(op, nodes)
       /\ opArg \in (IF op = "deleteMachine"
                     THEN {<<[name |-> m, nodeRef |-> NilRef]>> : m \in MachineNames}
                     ELSE {<<>>})
       /\ opInv = 0
       /\ opIter = NoIter
       /\ opList = <<>>
       /\ opCalls = <<>>
       /\ opResult = "none"
       /\ opReturn = <<>>
       /\ pc = (IF op = "isOneMachinePerNode" THEN "polling" ELSE "off")
       /\ tick = 0
       /\ machineList = <<>>
       /\ nodeList = <<>>
       /\ checkResult = "none"
       /\ lastIter = NoIter
       /\ invocations = 0
       /\ readFailed = FALSE
       /\ runs = <<>>
       /\ calls = {}
       /\ WaitOff
       /\ ReadyOff
       /\ ScaleOff
       /\ SecretOff

NextPoll ==
    \/ SizeIterate
    \/ ReadyIterate
    \/ SchedulableIterate
    \/ CheckIterate
    \/ WaitReturn
    \/ Reconcile
    \/ SchedulableWait
    \/ WorkerLookup
    \/ DeleteCall
    \/ Drift
    \/ ReadyAlone

SpecPoll == InitPoll /\ [][NextPoll]_vars

----------------------------------------------------------------------------
(* Properties of the polls called on their own (SpecPoll) *)

\* C11: waitUntilAllNodesAreSchedulable returns nil only from an invocation
\* whose node list call succeeded and listed no unschedulable node; an
\* invocation whose list call failed or that listed an unschedulable node is
\* (false, nil) and is followed by another one; and the wait returns an error
\* only when the deadline has passed, after MinuteTicks + 1 invocations.
C11_SchedulableOnlyOnCleanList ==
    op = "waitUntilAllNodesAreSchedulable" =>
        /\ opIter.err = FALSE
        /\ opResult \in {"none", "ok", "timeout"}
        /\ opResult = "ok" =>
                /\ opIter.cause # "nodeListError"
                /\ \A i \in 1..Len(opList) : opList[i].unschedulable = FALSE
        /\ (opInv > 0 /\ (opIter.cause = "nodeListError"
                          \/ \E i \in 1..Len(opList) : opList[i].unschedulable))
                => /\ opIter.done = FALSE
                   /\ opResult \in {"none", "timeout"}
        /\ opResult = "none" => tick = opInv /\ tick <= MinuteTicks
        /\ opResult = "timeout" => tick = MinuteTicks /\ opInv = MinuteTicks + 1

\* the wait succeeds at its second invocation on a list of two nodes
C11_Witness ==
    /\ op = "waitUntilAllNodesAreSchedulable"
    /\ opResult = "ok"
    /\ opInv = 2
    /\ Len(opList) = 2

\* C12: getWorkerNode returns a node only from an invocation whose list call
\* succeeded and was not empty; the node is the first item of that list, which
\* holds the nodes of the cluster that carry the worker role label; failed
\* and empty lists are (false, nil) and are followed by another invocation
\* until the deadline, when an error and no node are returned.
C12_WorkerIsFirstOfFinalList ==
    op = "getWorkerNode" =>
        /\ opIter.err = FALSE
        /\ opResult \in {"none", "ok", "timeout"}
        /\ opResult = "ok" =>
                /\ opIter.cause = "ok"
                /\ Len(opList) >= 1
                /\ opReturn = <<opList[1]>>
                /\ {opList[i].name : i \in 1..Len(opList)} = workerLabelled
                /\ \A i \in 1..Len(opList) : nodes[opList[i].name].annotations
                                                = opList[i].annotations
        /\ opResult # "ok" => opReturn = <<>>
        /\ (opInv > 0 /\ opIter.cause \in {"nodeListError", "noWorker"})
                => /\ opIter.done = FALSE
                   /\ opResult \in {"none", "timeout"}
        /\ opResult = "none" => tick = opInv /\ tick <= MinuteTicks
        /\ opResult = "timeout" => tick = MinuteTicks /\ opInv = MinuteTicks + 1

\* the second invocation returns n2, the only labelled node of two
C12_Witness ==
    /\ op = "getWorkerNode"
    /\ opResult = "ok"
    /\ opInv = 2
    /\ "n1" \in DOMAIN nodes
    /\ opReturn # <<>>
    /\ opReturn[1].name = "n2"

\* C13: every poll ends: while a poll runs, the intervals elapsed equal the
\* invocations made and do not exceed the intervals that fit in its timeout,
\* and another invocation is possible; so the predicate is invoked at most
\* that many times plus one, and the operation has then returned a result.
C13_PollsTerminate ==
    /\ op = "isOneMachinePerNode" =>
        /\ invocations <= ShortTicks + 1
        /\ pc = "polling" => /\ tick = invocations
                             /\ tick <= ShortTicks
                             /\ ENABLED CheckIterate
        /\ pc # "polling" => pc = "done" /\ checkResult \in {"true", "false"}
    /\ op \in PollOps \ {"isOneMachinePerNode"} =>
        /\ opInv <= MinuteTicks + 1
        /\ opResult = "none" => /\ tick = opInv
                                /\ tick <= MinuteTicks
                                /\ ENABLED (SchedulableWait \/ WorkerLookup \/ DeleteCall)
        /\ opResult # "none" => opResult \in {"ok", "timeout", "error"}
    /\ op = "none" =>
        /\ wpc = "size" => tick <= LongTicks /\ ENABLED SizeIterate
        /\ wpc = "ready" => tick <= ReadyTicks /\ ENABLED ReadyIterate
        /\ wpc = "schedulable" => tick <= MinuteTicks /\ ENABLED SchedulableIterate
        /\ wpc = "check" =>
            /\ invocations <= ShortTicks + 1
            /\ pc = "polling" => /\ tick = invocations
                                 /\ tick <= ShortTicks
                                 /\ ENABLED CheckIterate
            /\ pc # "polling" => pc = "done" /\ ENABLED WaitReturn
        /\ wpc = "done" => wResult # "none"

\* getWorkerNode gives up after MinuteTicks + 1 invocations
C13_Witness ==
    /\ op = "getWorkerNode"
    /\ opResult = "timeout"
    /\ opInv = MinuteTicks + 1

\* the poll of an operation called on its own stands at `result` after
\* `invoked` invocations, the last of which returned (done, err), when
\* `ticks` intervals fit in its timeout
EndsAs(result, invoked, done, err, ticks) ==
    invoked > 0 =>
        /\ err => result = "error"
        /\ (done /\ ~err) => result = "ok"
        /\ (~done /\ ~err /\ invoked <= ticks) => result = "none"
        /\ (~done /\ ~err /\ invoked > ticks) => result = "timeout"
        /\ result = "timeout" => invoked = ticks + 1

\* C14: a poll ends in one of three ways, decided by the last invocation of
\* its predicate: success when it returned true, the error when it returned
\* one, whatever remains of the timeout, and a timeout when it returned
\* (false, nil) once all the intervals of the timeout had elapsed; (false, nil)
\* before that leaves the poll running; and an ended poll never invokes the
\* predicate again.
C14_PollContract ==
    /\ [](/\ op \in PollOps \ {"isOneMachinePerNode"} =>
                EndsAs(opResult, opInv, opIter.done, opIter.err, MinuteTicks)
          /\ (op = "isOneMachinePerNode" /\ invocations > 0) =>
                /\ lastIter.done => pc = "done" /\ checkResult = "true"
                /\ (~lastIter.done /\ invocations <= ShortTicks) => pc = "polling"
                /\ (~lastIter.done /\ invocations > ShortTicks) =>
                        pc = "done" /\ checkResult = "false"
          /\ (op = "none" /\ sizeIter # NoIter) =>
                /\ sizeIter.err => wResult = "sizeError" /\ stages = <<"size">>
                /\ (sizeIter.done /\ ~sizeIter.err) => "size" \in passed
                /\ (~sizeIter.done /\ ~sizeIter.err) =>
                        \/ wpc = "size" /\ tick \in 1..LongTicks
                        \/ wResult = "sizeTimeout" /\ tick = LongTicks)
    /\ [][/\ (op \in PollOps /\ opResult # "none") => opInv' = opInv
          /\ (op = "isOneMachinePerNode" /\ pc = "done") => invocations' = invocations
          /\ (op = "none" /\ wpc # "size") => sizeIter' = sizeIter]_vars

\* the node-count poll is aborted by an error at its second invocation, with
\* an interval of its timeout left
C14_Witness ==
    /\ op = "none"
    /\ wResult = "sizeError"
    /\ sizeIter.err
    /\ tick = 1
    /\ tick < LongTicks

----------------------------------------------------------------------------
(* getMachineFromNode and getNodeFromMachine *)

\* cache.SplitMetaNamespaceKey: "name" has no namespace, "namespace/name" has
\* one, and a key of more parts is an error
SplitMetaNamespaceKey(key) ==
    IF Len(key) = 1 THEN [err |-> FALSE, namespace |-> "", name |-> key[1]]
    ELSE IF Len(key) = 2 THEN [err |-> FALSE, namespace |-> key[1], name |-> key[2]]
    ELSE [err |-> TRUE, namespace |-> "", name |-> ""]

\* getMachineFromNode without the comparison of the namespace
machineNameFromNode_AnyNamespace(node) ==
    IF MachineAnnotationKey \notin DOMAIN node.annotations
    THEN [result |-> "missingAnnotation", name |-> ""]
    ELSE LET k == SplitMetaNamespaceKey(node.annotations[MachineAnnotationKey])
         IN  IF k.err THEN [result |-> "malformedAnnotation", name |-> ""]
             ELSE [result |-> "get", name |-> k.name]

\* getMachineFromNode going on with the last part of a key that does not split
machineNameFromNode_Unchecked(node) ==
    IF MachineAnnotationKey \notin DOMAIN node.annotations
    THEN [result |-> "missingAnnotation", name |-> ""]
    ELSE LET key == node.annotations[MachineAnnotationKey]
         IN  [result |-> "get", name |-> key[Len(key)]]

\* getMachineFromNode up to its call of e2e.GetMachine: the error it returns,
\* or "get" and the name of the machine to get
machineNameFromNode(node) ==
    IF MachineAnnotationKey \notin DOMAIN node.annotations
    THEN [result |-> "missingAnnotation", name |-> ""]
    ELSE LET k == SplitMetaNamespaceKey(node.annotations[MachineAnnotationKey])
         IN  IF k.err THEN [result |-> "malformedAnnotation", name |-> ""]
             ELSE IF k.namespace # MachineApiNamespace
                  THEN [result |-> "forbiddenNamespace", name |-> ""]
                  ELSE [result |-> "get", name |-> k.name]

\* getMachineFromNode(client, node); e2e.GetMachine fails when the machine
\* does not exist in MachineApiNamespace and may fail when it does
getMachineFromNode ==
    /\ op = "getMachineFromNode"
    /\ opResult = "none"
    /\ LET d == machineNameFromNode(opArg[1])
       IN  IF d.result # "get"
           THEN /\ opResult' = d.result
                /\ UNCHANGED <<opCalls, opReturn>>
           ELSE /\ opCalls' = Append(opCalls, [verb |-> "get", kind |-> "machine",
                                               namespace |-> MachineApiNamespace,
                                               name |-> d.name])
                /\ \E getOK \in BOOLEAN :
                    /\ getOK => d.name \in DOMAIN machines
                    /\ opResult' = (IF getOK THEN "ok" ELSE "getError")
                    /\ opReturn' = (IF getOK
                                    THEN <<[name |-> d.name] @@ machines[d.name]>>
                                    ELSE <<>>)
    /\ UNCHANGED <<clusterVars, checkVars, tick, calls, waitVars, readyVars, scaleVars,
                   secretVars, workerLabelled, op, opArg, opInv, opIter, opList>>

ObjectRef(namespace, name) == [nil |-> FALSE, namespace |-> namespace, name |-> name]

\* getNodeFromMachine issuing its get call whatever the NodeRef
nodeKeyFromMachine_NilRefGets(machine) ==
    IF machine.nodeRef.nil
    THEN [result |-> "get", namespace |-> "", name |-> ""]
    ELSE [result |-> "get", namespace |-> machine.nodeRef.namespace,
          name |-> machine.nodeRef.name]

\* getNodeFromMachine up to its get call: the error it returns, or "get" and
\* the key of the node to get
nodeKeyFromMachine(machine) ==
    IF machine.nodeRef.nil
    THEN [result |-> "noNodeRef", namespace |-> "", name |-> ""]
    ELSE [result |-> "get", namespace |-> machine.nodeRef.namespace,
          name |-> machine.nodeRef.name]

\* getNodeFromMachine(client, machine); client.Get fails when there is no
\* node of that name and may fail when there is one
getNodeFromMachine ==
    /\ op = "getNodeFromMachine"
    /\ opResult = "none"
    /\ LET d == nodeKeyFromMachine(opArg[1])
       IN  IF d.result # "get"
           THEN /\ opResult' = d.result
                /\ UNCHANGED <<opCalls, opReturn>>
           ELSE /\ opCalls' = Append(opCalls, [verb |-> "get", kind |-> "node",
                                               namespace |-> d.namespace,
                                               name |-> d.name])
                /\ \E getOK \in BOOLEAN :
                    /\ getOK => d.name \in DOMAIN nodes
                    /\ opResult' = (IF getOK THEN "ok" ELSE "getError")
                    /\ opReturn' = (IF getOK
                                    THEN <<[name |-> d.name] @@ nodes[d.name]>>
                                    ELSE <<>>)
    /\ UNCHANGED <<clusterVars, checkVars, tick, calls, waitVars, readyVars, scaleVars,
                   secretVars, workerLabelled, op, opArg, opInv, opIter, opList>>

----------------------------------------------------------------------------
(* Specification of getMachineFromNode and getNodeFromMachine, each called  *)
(* once with an arbitrary argument on an arbitrary cluster                  *)

\* values of the machine annotation: keys of one, two and three parts
ResolveKeys ==
    AnnotationValues \cup {EmptyString, <<"m1">>, <<MachineApiNamespace, "m1", "m2">>,
                           Sprintf(MachineApiNamespace, "m3")}

ResolveNodes ==
    [name : NodeNames,
     annotations : {<<>>} \cup {Annotated(k) : k \in ResolveKeys}]

ResolveMachines ==
    [name : MachineNames,
     nodeRef : {NilRef} \cup {ObjectRef(ns, n) : ns \in {"", OtherNamespace},
                                                n \in NodeNames \cup {"n3"}}]

InitResolve ==
    /\ op \in {"getMachineFromNode", "getNodeFromMachine"}
    /\ nodes \in {f \in Fixtures(NodeNames, NodeObjects) :
                    \A n \in DOMAIN f : /\ f[n].conditions = ReadyConditions
                                         /\ f[n].annotations = <<>>
                                         /\ ~f[n].unschedulable}
    /\ machines \in Fixtures(MachineNames, MachineObjects)
    /\ op = "getMachineFromNode" => nodes = <<>>
    /\ op = "getNodeFromMachine" => machines = <<>>
    /\ opArg \in (IF op = "getMachineFromNode"
                  THEN {<<n>> : n \in ResolveNodes}
                  ELSE {<<m>> : m \in ResolveMachines})
    /\ workerLabelled = {}
    /\ opInv = 0
    /\ opIter = NoIter
    /\ opList = <<>>
    /\ opCalls = <<>>
    /\ opResult = "none"
    /\ opReturn = <<>>
    /\ calls = {}
    /\ CheckOff
    /\ WaitOff
    /\ ReadyOff
    /\ ScaleOff
    /\ SecretOff

NextResolve ==
    \/ getMachineFromNode
    \/ getNodeFromMachine

SpecResolve == InitResolve /\ [][NextResolve]_vars

\* C16: getMachineFromNode returns the missing-annotation error when the node
\* has no machine annotation and the malformed-annotation error when
\* cache.SplitMetaNamespaceKey rejects its value, without calling
\* e2e.GetMachine; it calls e2e.GetMachine only with the name decoded from a
\* key of MachineApiNamespace, returns the machine of that name when the call
\* succeeds and an error when it fails.
C16_MachineFromAnnotation ==
    (op = "getMachineFromNode" /\ opResult # "none") =>
        LET annotations == opArg[1].annotations
            key == annotations[MachineAnnotationKey]
        IN  /\ MachineAnnotationKey \notin DOMAIN annotations =>
                    opResult = "missingAnnotation" /\ opCalls = <<>> /\ opReturn = <<>>
            /\ (MachineAnnotationKey \in DOMAIN annotations /\ Len(key) > 2) =>
                    opResult = "malformedAnnotation" /\ opCalls = <<>> /\ opReturn = <<>>
            /\ opCalls # <<>> =>
                    /\ key \in {MachineKey(m) : m \in MachineNames \cup {"m3"}}
                    /\ opCalls = <<[verb |-> "get", kind |-> "machine",
                                    namespace |-> MachineApiNamespace, name |-> key[2]]>>
                    /\ opResult \in {"ok", "getError"}
            /\ opResult = "ok" =>
                    /\ opCalls # <<>>
                    /\ key[2] \in DOMAIN machines
                    /\ opReturn = <<[name |-> key[2]] @@ machines[key[2]]>>
            /\ opResult # "ok" => opReturn = <<>>

\* a key of three parts is rejected as malformed
C16_Witness ==
    /\ op = "getMachineFromNode"
    /\ opResult = "malformedAnnotation"
    /\ Len(opArg[1].annotations[MachineAnnotationKey]) = 3
    /\ machines # <<>>

\* C17: getNodeFromMachine returns the no-NodeRef error without any get call
\* when the machine's Status.NodeRef is nil; otherwise it issues one get call,
\* keyed by the NodeRef's namespace and name, and returns the node of that
\* name when the call succeeds and an error when it fails.
C17_NodeFromNodeRef ==
    (op = "getNodeFromMachine" /\ opResult # "none") =>
        LET ref == opArg[1].nodeRef
        IN  /\ ref.nil => opResult = "noNodeRef" /\ opCalls = <<>> /\ opReturn = <<>>
            /\ ~ref.nil =>
                    /\ opCalls = <<[verb |-> "get", kind |-> "node",
                                    namespace |-> ref.namespace, name |-> ref.name]>>
                    /\ opResult \in {"ok", "getError"}
                    /\ opResult = "ok" =>
                            /\ ref.name \in DOMAIN nodes
                            /\ opReturn = <<[name |-> ref.name] @@ nodes[ref.name]>>
                    /\ opResult = "getError" => opReturn = <<>>

\* the node named by a NodeRef with a namespace is fetched and returned
C17_Witness ==
    /\ op = "getNodeFromMachine"
    /\ opResult = "ok"
    /\ opArg[1].nodeRef.namespace = OtherNamespace
    /\ opReturn # <<>>
    /\ opReturn[1].name = "n2"

----------------------------------------------------------------------------
(* Properties of isOneMachinePerNode on a cluster that changes while it     *)
(* polls (SpecPoll)                                                         *)

TransientCauses ==
    {"machineListError", "nodeListError", "count", "noAnnotation", "noNodeRef"}

\* C18: an invocation of the predicate of isOneMachinePerNode whose list call
\* failed, or that read different counts, a node without the annotation or a
\* machine without NodeRef, returns (false, nil) and is followed by another
\* one unless the deadline has passed; an invocation that reads both lists
\* from a converged cluster makes the operation return true; and false is
\* returned only at the deadline.
C18_RecoversFromTransientInconsistency ==
    /\ [](op = "isOneMachinePerNode" =>
            /\ lastIter.err = FALSE
            /\ lastIter.cause \in TransientCauses =>
                    /\ lastIter.done = FALSE
                    /\ \/ pc = "polling" /\ invocations <= ShortTicks
                       \/ pc = "done" /\ checkResult = "false"
            /\ checkResult = "false" => invocations = ShortTicks + 1)
    /\ [][(/\ op = "isOneMachinePerNode"
           /\ invocations' = invocations + 1
           /\ Converged
           /\ lastIter'.cause \notin {"machineListError", "nodeListError"})
          => (pc' = "done" /\ checkResult' = "true")]_vars

\* the last invocation before the deadline returns true on two nodes, after
\* invocations whose lists were read and were not consistent
C18_Witness ==
    /\ op = "isOneMachinePerNode"
    /\ checkResult = "true"
    /\ invocations = ShortTicks + 1
    /\ ~readFailed
    /\ Cardinality(DOMAIN nodes) = 2

----------------------------------------------------------------------------
(* Properties of the snapshot logs of the node-count poll (SpecWait) *)

LogCauses == {"machineSetsSnapShotLogs", "nodesSnapShotLogs"}

----------------------------------------------------------------------------
(* Properties of the lists the polls hold from one invocation to the next   *)
(* (SpecPoll)                                                               *)

\* C20: every invocation of the predicates of isOneMachinePerNode,
\* waitUntilAllNodesAreSchedulable and getWorkerNode that returns true has
\* read all its lists in that invocation, so the lists it judged are those
\* of the cluster at that time; an invocation whose list call failed returns
\* (false, nil) whatever lists are left from earlier invocations; and the
\* node getWorkerNode returns is the first of the list its last invocation
\* read.
C20_NoSnapshotCarriedOver ==
    /\ [][(op = "isOneMachinePerNode" /\ invocations' = invocations + 1) =>
            /\ lastIter'.done =>
                    /\ lastIter'.cause = "ok"
                    /\ machineList' = ListMachines
                    /\ nodeList' = ListNodes
            /\ lastIter'.cause \in {"machineListError", "nodeListError"} =>
                    lastIter'.done = FALSE /\ lastIter'.err = FALSE]_vars
    /\ [][(op = "waitUntilAllNodesAreSchedulable" /\ opInv' = opInv + 1) =>
            /\ opIter'.done =>
                    /\ opList' = ListNodes
                    /\ \A n \in DOMAIN nodes : nodes[n].unschedulable = FALSE
            /\ opIter'.cause = "nodeListError" =>
                    opIter'.done = FALSE /\ opIter'.err = FALSE]_vars
    /\ [][(op = "getWorkerNode" /\ opInv' = opInv + 1) =>
            /\ opIter'.done =>
                    /\ Len(opList') = Cardinality(workerLabelled)
                    /\ \A i \in 1..Len(opList') :
                            /\ opList'[i].name \in workerLabelled
                            /\ opList'[i] = [name |-> opList'[i].name]
                                                @@ nodes[opList'[i].name]
                    /\ \A i, j \in 1..Len(opList') :
                            i # j => opList'[i].name # opList'[j].name
                    /\ opReturn' = <<opList'[1]>>
            /\ opIter'.cause = "nodeListError" =>
                    /\ opIter'.done = FALSE /\ opIter'.err = FALSE
                    /\ opReturn' = <<>>]_vars

\* the node list call of isOneMachinePerNode has failed after the cluster
\* changed: the node list left from the invocation before would pass with
\* the machine list just read, and the invocation is not satisfied
C20_Witness ==
    /\ op = "isOneMachinePerNode"
    /\ pc = "polling"
    /\ lastIter.cause = "nodeListError"
    /\ machineList = ListMachines
    /\ nodeList # <<>>
    /\ nodeList # ListNodes
    /\ snapshotCause(machineList, nodeList) = "ok"

----------------------------------------------------------------------------
(* Properties of the error waitForClusterSizeToBeHealthy returns (SpecWait) *)

\* the cause named in the error that is returned as `result`: the error of
\* the node-count poll wraps the predicate's error when there is one, the
\* other errors are the poller's timeout or a fixed message
carriedCause(result) ==
    IF result = "sizeError" THEN sizeIter.cause ELSE "none"

StructuralCauses == {"noAnnotation", "noNodeRef", "mismatch"}

\* C21: when the one-machine-per-node stage ends because its last invocation
\* found a node without annotation, a machine without NodeRef or an
\* annotation that does not match, the error of waitForClusterSizeToBeHealthy
\* is returned once the poll's timeout has passed and names that cause.
C21_ErrorCarriesLastCause ==
    (wResult = "notOneMachinePerNode" /\ lastIter.cause \in StructuralCauses) =>
        /\ invocations = ShortTicks + 1
        /\ carriedCause(wResult) = lastIter.cause

\* C22: when waitForClusterSizeToBeHealthy returns nil, the lists that the
\* last invocation of isOneMachinePerNode accepted hold targetSize nodes and
\* targetSize machines.
C22_AcceptedSnapshotHasTargetSize ==
    wResult = "ok" =>
        /\ Len(nodeList) = targetSize
        /\ Len(machineList) = targetSize

----------------------------------------------------------------------------
(* Properties of the operations on empty inputs (SpecPoll) *)

\* C23: nodesAreReady returns true on an empty sequence of nodes; the wait
\* for schedulable nodes succeeds at the invocation that lists no node, the
\* first one included; isOneMachinePerNode returns true at the invocation
\* that lists no machine and no node, the first one included; and
\* waitForClusterSizeToBeHealthy called with target 0 on a cluster that is
\* and stays empty passes every stage at its first invocation and returns
\* nil when all its reads succeed.
C23_EmptyInputsSatisfy ==
    /\ (readyResult # "none" /\ readyInput = <<>>) =>
            readyResult = "true" /\ examined = 0
    /\ (op = "waitUntilAllNodesAreSchedulable" /\ opInv >= 1
            /\ opIter.cause # "nodeListError" /\ opList = <<>>) =>
            opResult = "ok" /\ opIter.done
    /\ (op = "isOneMachinePerNode" /\ invocations >= 1 /\ BothListsRead
            /\ machineList = <<>> /\ nodeList = <<>>) =>
            pc = "done" /\ checkResult = "true"
    /\ (op = "none" /\ wpc # "off" /\ targetSize = 0 /\ startSize = 0 /\ ~reconciled
            /\ machines = <<>>
            /\ ~wReadFailed /\ ~stageReadFailed /\ ~readFailed) =>
            /\ wResult \in {"none", "ok"}
            /\ tick = 0
            /\ invocations <= 1

\* waitForClusterSizeToBeHealthy has returned nil for target 0 on a cluster
\* that stayed empty, all reads succeeding
C23_Witness ==
    /\ op = "none"
    /\ wResult = "ok"
    /\ targetSize = 0
    /\ startSize = 0
    /\ ~reconciled
    /\ nodes = <<>>
    /\ machines = <<>>
    /\ ~wReadFailed /\ ~stageReadFailed /\ ~readFailed
    /\ invocations = 1

----------------------------------------------------------------------------
(* Properties of getMachineFromNode on keys of other namespaces (SpecResolve) *)

\* C24: getMachineFromNode returns an error without calling e2e.GetMachine
\* when the annotation is a key "namespace/name" whose namespace is not
\* MachineApiNamespace; every machine it gets is named by a key of
\* MachineApiNamespace and is fetched from that namespace.
C24_OtherNamespaceRejected ==
    (op = "getMachineFromNode" /\ opResult # "none") =>
        LET annotations == opArg[1].annotations
            key == annotations[MachineAnnotationKey]
        IN  /\ (MachineAnnotationKey \in DOMAIN annotations /\ Len(key) = 2
                    /\ key[1] # MachineApiNamespace) =>
                    /\ opResult = "forbiddenNamespace"
                    /\ opCalls = <<>>
                    /\ opReturn = <<>>
            /\ \A i \in 1..Len(opCalls) :
                    /\ opCalls[i].namespace = MachineApiNamespace
                    /\ MachineAnnotationKey \in DOMAIN annotations
                    /\ key[1] = MachineApiNamespace

\* the key names an existing machine under another namespace and is rejected
C24_Witness ==
    /\ op = "getMachineFromNode"
    /\ opResult = "forbiddenNamespace"
    /\ opArg[1].annotations[MachineAnnotationKey] = Sprintf(OtherNamespace, "m1")
    /\ "m1" \in DOMAIN machines

----------------------------------------------------------------------------
(* createMetal3PasswordSecrets (pkg/operator/baremetal_pod.go) *)

baremetalSecretName == "metal3-mariadb-password"
ironicSecretName == "metal3-ironic-password"

\* the passwords generateRandomPassword may return
Passwords == {"pw1", "pw2"}
\* a password set by another writer of the namespace
ForeignPassword == "pw0"

\* what Secrets(...).Get may answer for the secret `name`
GetAnswers(name) ==
    IF name \in DOMAIN secrets THEN {"found", "error"} ELSE {"notFound", "error"}

\* the function going on to create the secret whenever the get returned an
\* error
afterGet_CreateOnAnyError(get) ==
    IF get = "found" THEN "returnNil" ELSE "create"

\* what create...PasswordSecret does after its get: !apierrors.IsNotFound(err)
\* returns err, which is nil when the secret was found
afterGet(get) ==
    IF get # "notFound" THEN (IF get = "found" THEN "returnNil" ELSE "returnErr")
    ELSE "create"

\* the secrets with `name` set to `password`
WithSecret(name, password) ==
    [x \in DOMAIN secrets \cup {name} |-> IF x = name THEN password ELSE secrets[x]]

\* the ways one call of create...PasswordSecret for the secret `name` can go:
\* the calls it issues, the secrets it leaves and whether it returns nil.
\* Between its get and its create another writer may create the secret, and
\* the create then fails.
PasswordSecretRuns(name) ==
    UNION {
        LET getCall == [verb |-> "get", name |-> name, answer |-> get]
            todo == afterGet(get)
        IN  IF todo # "create"
            THEN {[calls |-> <<getCall>>, secrets |-> secrets, ok |-> todo = "returnNil"]}
            ELSE {[calls |-> <<getCall>>, secrets |-> secrets, ok |-> FALSE]}
                 \cup
                 {[calls |-> <<getCall, [verb |-> "create", name |-> name,
                                         answer |-> "created"]>>,
                   secrets |-> WithSecret(name, pw), ok |-> TRUE] :
                        pw \in IF name \in DOMAIN secrets THEN {} ELSE Passwords}
                 \cup
                 {[calls |-> <<getCall, [verb |-> "create", name |-> name,
                                         answer |-> "alreadyExists"]>>,
                   secrets |-> IF name \in DOMAIN secrets THEN secrets
                               ELSE WithSecret(name, ForeignPassword),
                   ok |-> FALSE]}
                 \cup
                 {[calls |-> <<getCall, [verb |-> "create", name |-> name,
                                         answer |-> "error"]>>,
                   secrets |-> secrets, ok |-> FALSE]}
        : get \in GetAnswers(name)}

\* createMetal3PasswordSecrets is called
SecretsStart ==
    /\ spc \in {"idle", "done"}
    /\ Len(secretRuns) < 2
    /\ spc' = "mariadb"
    /\ secretBefore' = secrets
    /\ secretCalls' = <<>>
    /\ UNCHANGED <<clusterVars, checkVars, tick, calls, waitVars, readyVars, scaleVars,
                   opVars, secrets, secretRuns>>

\* one call of a create...PasswordSecret function goes as `r`: on success
\* `next` follows, on an error createMetal3PasswordSecrets returns it
SecretStep(r, next) ==
    /\ secrets' = r.secrets
    /\ secretCalls' = secretCalls \o r.calls
    /\ spc' = (IF r.ok THEN next ELSE "done")
    /\ secretRuns' = (IF spc' = "done"
                      THEN Append(secretRuns, [ok |-> r.ok, calls |-> secretCalls',
                                               before |-> secretBefore,
                                               after |-> secrets'])
                      ELSE secretRuns)
    /\ UNCHANGED <<clusterVars, checkVars, tick, calls, waitVars, readyVars, scaleVars,
                   opVars, secretBefore>>

\* createMariadbPasswordSecret
MariadbStep ==
    /\ spc = "mariadb"
    /\ \E r \in PasswordSecretRuns(baremetalSecretName) : SecretStep(r, "ironic")

\* createIronicPasswordSecret
IronicStep ==
    /\ spc = "ironic"
    /\ \E r \in PasswordSecretRuns(ironicSecretName) : SecretStep(r, "done")

----------------------------------------------------------------------------
(* Specification of createMetal3PasswordSecrets run once or twice on a      *)
(* namespace holding any of the two secrets                                 *)

InitSecrets ==
    /\ secrets \in Fixtures({baremetalSecretName, ironicSecretName},
                            Passwords \cup {ForeignPassword})
    /\ spc = "idle"
    /\ secretBefore = <<>>
    /\ secretCalls = <<>>
    /\ secretRuns = <<>>
    /\ nodes = <<>>
    /\ machines = <<>>
    /\ calls = {}
    /\ CheckOff
    /\ WaitOff
    /\ ReadyOff
    /\ ScaleOff
    /\ OpOff

NextSecrets ==
    \/ SecretsStart
    \/ MariadbStep
    \/ IronicStep

SpecSecrets == InitSecrets /\ [][NextSecrets]_vars

\* the positions of the calls of `cs` on the secret `name` with verb `verb`
CallsOn(cs, verb, name) ==
    {i \in 1..Len(cs) : cs[i].verb = verb /\ cs[i].name = name}

\* the calls `cs` of a run: a create follows a get of the same secret that
\* answered not-found, and nothing follows a get that failed otherwise
CreateOnlyAfterNotFound(cs) ==
    \A i \in 1..Len(cs) :
        /\ cs[i].verb = "create" =>
                /\ i > 1
                /\ cs[i - 1] = [verb |-> "get", name |-> cs[i].name,
                                answer |-> "notFound"]
        /\ (cs[i].verb = "get" /\ cs[i].answer = "error") => i = Len(cs)
        /\ (cs[i].verb = "get" /\ cs[i].answer = "found") =>
                CallsOn(cs, "create", cs[i].name) = {}

\* a completed run: the MariaDB secret is handled first, the Ironic secret
\* only after the MariaDB step returned nil, and the run returns nil exactly
\* when the Ironic step did
MariadbBeforeIronic(r) ==
    LET cs == r.calls
        stepOK(name) ==
            \E i \in 1..Len(cs) :
                /\ cs[i].name = name
                /\ \/ cs[i].verb = "get" /\ cs[i].answer = "found"
                   \/ cs[i].verb = "create" /\ cs[i].answer = "created"
    IN  /\ cs[1] \in [verb : {"get"}, name : {baremetalSecretName},
                      answer : {"found", "notFound", "error"}]
        /\ \A i, j \in 1..Len(cs) :
                (cs[i].name = baremetalSecretName /\ cs[j].name = ironicSecretName)
                    => i < j
        /\ (CallsOn(cs, "get", ironicSecretName) # {}) = stepOK(baremetalSecretName)
        /\ Cardinality(CallsOn(cs, "get", baremetalSecretName)) = 1
        /\ Cardinality(CallsOn(cs, "get", ironicSecretName)) <= 1
        /\ r.ok = (stepOK(baremetalSecretName) /\ stepOK(ironicSecretName))

\* C25: createMariadbPasswordSecret and createIronicPasswordSecret issue a
\* create only right after their get answered not-found; when the get finds
\* the secret they return nil without create, and when it fails otherwise
\* they return the error without create; no existing secret is ever changed;
\* createMetal3PasswordSecrets handles the MariaDB secret first and leaves the
\* Ironic secret alone when the MariaDB step failed; and a run that follows a
\* successful run issues no create.
C25_SecretsCreatedOnceNeverOverwritten ==
    /\ CreateOnlyAfterNotFound(secretCalls)
    /\ \A x \in DOMAIN secretBefore : x \in DOMAIN secrets /\ secrets[x] = secretBefore[x]
    /\ \A k \in 1..Len(secretRuns) :
        LET r == secretRuns[k]
        IN  /\ CreateOnlyAfterNotFound(r.calls)
            /\ MariadbBeforeIronic(r)
            /\ \A x \in DOMAIN r.before : x \in DOMAIN r.after /\ r.after[x] = r.before[x]
            /\ r.ok => DOMAIN r.after = {baremetalSecretName, ironicSecretName}
    /\ (Len(secretRuns) = 2 /\ secretRuns[1].ok) =>
            /\ \A i \in 1..Len(secretRuns[2].calls) : secretRuns[2].calls[i].verb = "get"
            /\ secretRuns[2].after = secretRuns[1].after

\* a run creates both secrets and the next run finds them and creates nothing
C25_Witness ==
    /\ Len(secretRuns) = 2
    /\ secretRuns[1].ok
    /\ secretRuns[1].before = <<>>
    /\ Len(secretRuns[1].calls) = 4
    /\ secretRuns[2].ok
    /\ Len(secretRuns[2].calls) = 2


----------------------------------------------------------------------------
(* getMachinesFromMachineSet and getNodesFromMachineSet *)

\* metav1.GetControllerOf: the first owner reference marked as controller
GetControllerOf(obj) ==
    SelectSeq(obj.ownerReferences, LAMBDA ref : ref.controller)

\* metav1.IsControlledBy: the object has a controller reference and its UID
\* is the owner's
IsControlledBy(obj, owner) ==
    LET refs == GetControllerOf(obj)
    IN  refs # <<>> /\ refs[1].uid = owner.uid

\* the loop of getMachinesFromMachineSet over the listed machines
machinesForSet(machineItems, machineSet) ==
    SelectSeq(machineItems, LAMBDA machine : IsControlledBy(machine, machineSet))

NodeGet(key, ok) ==
    [verb |-> "get", kind |-> "node", namespace |-> key.namespace,
     name |-> key.name, ok |-> ok]

\* the loop of getNodesFromMachineSet going on to the next machine when
\* getNodeFromMachine fails
RECURSIVE NodesOfMachines_SkipFailed(_)
NodesOfMachines_SkipFailed(ms) ==
    IF ms = <<>> THEN {[calls |-> <<>>, nodes |-> <<>>, err |-> FALSE]}
    ELSE LET d == nodeKeyFromMachine(Head(ms))
             rest == NodesOfMachines_SkipFailed(Tail(ms))
         IN  IF d.result # "get" THEN rest
             ELSE {[r EXCEPT !.calls = <<NodeGet(d, FALSE)>> \o @] : r \in rest}
                  \cup
                  (IF d.name \in DOMAIN nodes
                   THEN {[r EXCEPT !.calls = <<NodeGet(d, TRUE)>> \o @,
                                   !.nodes = <<[name |-> d.name] @@ nodes[d.name]>> \o @] :
                            r \in rest}
                   ELSE {})

\* the loop of getNodesFromMachineSet over the machines of the set: every way
\* it can run, as the get calls made, the nodes appended and whether it
\* stopped on an error of getNodeFromMachine; client.Get fails when there is
\* no node of that name and may fail when there is one
RECURSIVE NodesOfMachines(_)
NodesOfMachines(ms) ==
    IF ms = <<>> THEN {[calls |-> <<>>, nodes |-> <<>>, err |-> FALSE]}
    ELSE LET d == nodeKeyFromMachine(Head(ms))
         IN  IF d.result # "get"
             THEN {[calls |-> <<>>, nodes |-> <<>>, err |-> TRUE]}
             ELSE {[calls |-> <<NodeGet(d, FALSE)>>, nodes |-> <<>>, err |-> TRUE]}
                  \cup
                  (IF d.name \in DOMAIN nodes
                   THEN {[r EXCEPT !.calls = <<NodeGet(d, TRUE)>> \o @,
                                   !.nodes = <<[name |-> d.name] @@ nodes[d.name]>> \o @] :
                            r \in NodesOfMachines(Tail(ms))}
                   ELSE {})

MachineList(ok) ==
    [verb |-> "list", kind |-> "machine", namespace |-> MachineApiNamespace,
     name |-> "", ok |-> ok]

\* getNodesFromMachineSet(client, machineSet); opList holds the machines
\* e2e.GetMachines returns when it succeeds
getNodesFromMachineSet ==
    /\ op = "getNodesFromMachineSet"
    /\ opResult = "none"
    /\ \E listOK \in BOOLEAN :
        IF ~listOK
        THEN /\ opCalls' = <<MachineList(FALSE)>>
             /\ opResult' = "listError"
             /\ opReturn' = <<>>
        ELSE \E r \in NodesOfMachines(machinesForSet(opList, opArg[1])) :
                /\ opCalls' = <<MachineList(TRUE)>> \o r.calls
                /\ opResult' = (IF r.err THEN "nodeError" ELSE "ok")
                /\ opReturn' = (IF r.err THEN <<>> ELSE r.nodes)
    /\ UNCHANGED <<clusterVars, checkVars, tick, calls, waitVars, readyVars, scaleVars,
                   secretVars, workerLabelled, op, opArg, opInv, opIter, opList>>

----------------------------------------------------------------------------
(* Specification of getNodesFromMachineSet, called once for a machine-set   *)
(* on an arbitrary list of machines and an arbitrary set of nodes           *)

MachineSetUIDs == {"uid1", "uid2"}

MachineSets == {[name |-> "ms1", uid |-> "uid1"]}

\* no owner, a controller, an owner that is not the controller, and a
\* controller listed after an owner that is not
OwnerReferences ==
    {<<>>} \cup {<<[uid |-> u, controller |-> c]>> : u \in MachineSetUIDs, c \in BOOLEAN}
           \cup {<<[uid |-> "uid2", controller |-> FALSE],
                   [uid |-> "uid1", controller |-> TRUE]>>}

ListedNames == <<"m1", "m2", "m3">>

ListedMachine(name) ==
    [name : {name},
     ownerReferences : OwnerReferences,
     nodeRef : {NilRef} \cup {ObjectRef("", n) : n \in NodeNames}]

\* the lists e2e.GetMachines can return: up to Len(ListedNames) machines
ListedMachines ==
    UNION {{ms \in [1..k -> UNION {ListedMachine(ListedNames[i]) : i \in 1..k}] :
                \A i \in 1..k : ms[i].name = ListedNames[i]} :
           k \in 0..Len(ListedNames)}

InitMachineSet ==
    /\ op = "getNodesFromMachineSet"
    /\ nodes \in {f \in Fixtures(NodeNames, NodeObjects) :
                    \A n \in DOMAIN f : /\ f[n].conditions = ReadyConditions
                                         /\ f[n].annotations = <<>>
                                         /\ ~f[n].unschedulable}
    /\ machines = <<>>
    /\ opArg \in {<<ms>> : ms \in MachineSets}
    /\ opList \in ListedMachines
    /\ workerLabelled = {}
    /\ opInv = 0
    /\ opIter = NoIter
    /\ opCalls = <<>>
    /\ opResult = "none"
    /\ opReturn = <<>>
    /\ calls = {}
    /\ CheckOff
    /\ WaitOff
    /\ ReadyOff
    /\ ScaleOff
    /\ SecretOff

NextMachineSet == getNodesFromMachineSet

SpecMachineSet == InitMachineSet /\ [][NextMachineSet]_vars

\* the machines of opList whose controller is the machine-set, in list order
ControlledMachines ==
    LET RECURSIVE Pick(_)
        Pick(i) == IF i > Len(opList) THEN <<>>
                   ELSE IF \E j \in DOMAIN opList[i].ownerReferences :
                            /\ opList[i].ownerReferences[j].controller
                            /\ opList[i].ownerReferences[j].uid = opArg[1].uid
                            /\ \A h \in 1..(j - 1) :
                                  ~opList[i].ownerReferences[h].controller
                        THEN <<opList[i]>> \o Pick(i + 1)
                        ELSE Pick(i + 1)
    IN  Pick(1)

\* C26: getNodesFromMachineSet makes its get calls only for the machines the
\* machine-set controls, in list order, and stops at the first that fails.
\* It returns without error exactly when the list call succeeded, every
\* controlled machine has a NodeRef and every get succeeded, and then returns
\* the node of each controlled machine in that order; in every other case it
\* returns an error and no nodes.
C26_NodesOfSetAllOrNothing ==
    (op = "getNodesFromMachineSet" /\ opResult # "none") =>
        LET owned == ControlledMachines
            gets == Tail(opCalls)
        IN  /\ opCalls[1].verb = "list"
            /\ ~opCalls[1].ok => gets = <<>>
            /\ Len(gets) <= Len(owned)
            /\ \A i \in DOMAIN gets :
                  /\ ~owned[i].nodeRef.nil
                  /\ gets[i].name = owned[i].nodeRef.name
                  /\ gets[i].namespace = owned[i].nodeRef.namespace
                  /\ ~gets[i].ok => i = Len(gets)
            /\ opResult = "ok" <=>
                  /\ \A i \in DOMAIN opCalls : opCalls[i].ok
                  /\ \A i \in DOMAIN owned : ~owned[i].nodeRef.nil
            /\ opResult = "ok" =>
                  /\ Len(opReturn) = Len(owned)
                  /\ \A i \in DOMAIN owned :
                        /\ owned[i].nodeRef.name \in DOMAIN nodes
                        /\ opReturn[i] = [name |-> owned[i].nodeRef.name]
                                            @@ nodes[owned[i].nodeRef.name]
            /\ opResult # "ok" => opReturn = <<>>

\* the list holds a machine of another owner between two machines of the set,
\* the node of the first is got and the get for the second fails: the call
\* returns an error and no nodes
C26_Witness ==
    /\ op = "getNodesFromMachineSet"
    /\ opResult = "nodeError"
    /\ Len(opList) = Len(ListedNames)
    /\ Len(ControlledMachines) = 2
    /\ ~IsControlledBy(opList[2], opArg[1])
    /\ Len(opCalls) = 3
    /\ opCalls[2].ok
    /\ ~opCalls[3].ok
    /\ opReturn = <<>>

====
